---- MODULE Spec2Model ----
(***************************************************************************)
(* Model of process_openb_dir.py: rack labelling of machine records,       *)
(* spread-constraint injection into workload records, and the directory    *)
(* orchestrator that discovers, loads, annotates and writes the two files. *)
(***************************************************************************)
EXTENDS Integers, Sequences, FiniteSets, TLC

\* ------------------------------------------------------------------ bounds
MaxLen == 3      \* longest in-memory record sequence drawn for the annotators
MaxRack == 2     \* rack_mod ranges over 1..MaxRack
MaxSkew == 2     \* max_skew ranges over 1..MaxSkew
MaxPasses == 2   \* times an annotator is applied to the same sequence
MaxRuns == 2     \* successive invocations of process_directory

\* ------------------------------------------------------------ text strings
\* A Python str is a sequence of tokens; decimal digits are single tokens.
Digit == <<"0", "1", "2", "3", "4", "5", "6", "7", "8", "9">>

RECURSIVE DecStr(_)
\* str(n) / f"{n}" for a non-negative int
DecStr(n) == IF n < 10 THEN <<Digit[n + 1]>>
             ELSE DecStr(n \div 10) \o <<Digit[(n % 10) + 1]>>

\* ------------------------------------------------------------- YAML values
\* Every value has the same four fields so that values of different kinds
\* compare.  kids of a mapping: <<key, value>> in insertion order; kids of a
\* list: <<"-", item>>.
StrV(s)    == [tag |-> "str",  s |-> s,    n |-> 0, kids |-> <<>>]
IntV(n)    == [tag |-> "int",  s |-> <<>>, n |-> n, kids |-> <<>>]
NullV      == [tag |-> "null", s |-> <<>>, n |-> 0, kids |-> <<>>]
MapV(kids) == [tag |-> "map",  s |-> <<>>, n |-> 0, kids |-> kids]
ListV(items) == [tag |-> "seq", s |-> <<>>, n |-> 0,
                kids |-> [i \in 1..Len(items) |-> <<"-", items[i]>>]]

IsMap(v) == v.tag = "map"
Keys(d) == {d.kids[i][1] : i \in 1..Len(d.kids)}
Has(d, k) == k \in Keys(d)
\* d[k] for a key that is present
Get(d, k) == d.kids[CHOOSE i \in 1..Len(d.kids) : d.kids[i][1] = k][2]
\* d[k] = v : replaces in place, a new key goes last
SetItem(d, k, v) ==
    IF Has(d, k)
    THEN [d EXCEPT !.kids = [i \in 1..Len(d.kids) |->
                 IF d.kids[i][1] = k THEN <<k, v>> ELSE d.kids[i]]]
    ELSE [d EXCEPT !.kids = Append(d.kids, <<k, v>>)]
\* d.setdefault(k, v)
SetDefault(d, k, v) == IF Has(d, k) THEN d ELSE SetItem(d, k, v)
\* d.get(k)
GetOrNone(d, k) == IF Has(d, k) THEN Get(d, k) ELSE NullV

\* ------------------------------------------------------------ annotators
RackLabelKey == "topology.kubernetes.io/rack"
\* mutant: the counter is used without the modulus
RackValue_NoMod(rack_number, rack_mod) == StrV(<<"rack-">> \o DecStr(rack_number))
RackValue(rack_number, rack_mod) == StrV(<<"rack-">> \o DecStr(rack_number % rack_mod))

\* the body of the loop of add_rack_labels for one node; ok = FALSE when a
\* setdefault or an item assignment hits something that is not a mapping
LabelNode(node, rack_number, rack_mod) ==
    IF ~IsMap(node) THEN [ok |-> FALSE, val |-> node]
    ELSE LET n1 == SetDefault(node, "metadata", MapV(<<>>))
             md == Get(n1, "metadata")
         IN IF ~IsMap(md) THEN [ok |-> FALSE, val |-> n1]
            ELSE LET md1 == SetDefault(md, "labels", MapV(<<>>))
                     lb  == Get(md1, "labels")
                 IN IF ~IsMap(lb) THEN [ok |-> FALSE, val |-> SetItem(n1, "metadata", md1)]
                    ELSE [ok |-> TRUE,
                          val |-> SetItem(n1, "metadata",
                                   SetItem(md1, "labels",
                                     SetItem(lb, RackLabelKey,
                                             RackValue(rack_number, rack_mod))))]

RECURSIVE RackLoop(_, _, _, _)
\* the for loop of add_rack_labels from position i with counter rack_number
RackLoop(nodes, i, rack_number, rack_mod) ==
    IF i > Len(nodes) THEN [ok |-> TRUE, val |-> nodes]
    ELSE LET r == LabelNode(nodes[i], rack_number, rack_mod)
         IN IF ~r.ok THEN [ok |-> FALSE, val |-> nodes]
            ELSE RackLoop([nodes EXCEPT ![i] = r.val], i + 1, rack_number + 1, rack_mod)

add_rack_labels(nodes, rack_mod) == RackLoop(nodes, 1, 0, rack_mod)

WhenUnsatisfiableDefault == <<"ScheduleAnyway">>
Constraint(topology_key, max_skew, when_unsatisfiable) ==
    MapV(<< <<"maxSkew", IntV(max_skew)>>,
           <<"topologyKey", StrV(<<topology_key>>)>>,
           <<"whenUnsatisfiable", StrV(when_unsatisfiable)>>,
           <<"labelSelector", MapV(<<>>)>> >>)

\* mutant: the constraint is appended to the list already there
ConstrainPod_Append(pod, topology_key, max_skew, when_unsatisfiable) ==
    IF ~IsMap(pod) THEN [ok |-> FALSE, val |-> pod]
    ELSE IF GetOrNone(pod, "kind") # StrV(<<"Pod">>) THEN [ok |-> TRUE, val |-> pod]
    ELSE LET p1 == SetDefault(pod, "spec", MapV(<<>>))
             sp == Get(p1, "spec")
             old == IF IsMap(sp) /\ Has(sp, "topologySpreadConstraints")
                    THEN Get(sp, "topologySpreadConstraints").kids ELSE <<>>
         IN IF ~IsMap(sp) THEN [ok |-> FALSE, val |-> p1]
            ELSE [ok |-> TRUE,
                  val |-> SetItem(p1, "spec",
                            SetItem(sp, "topologySpreadConstraints",
                              [tag |-> "seq", s |-> <<>>, n |-> 0,
                               kids |-> Append(old,
                                  <<"-", Constraint(topology_key, max_skew,
                                                    when_unsatisfiable)>>)]))]

\* the body of the loop of add_topology_constraints for one record
ConstrainPod(pod, topology_key, max_skew, when_unsatisfiable) ==
    IF ~IsMap(pod) THEN [ok |-> FALSE, val |-> pod]
    ELSE IF GetOrNone(pod, "kind") # StrV(<<"Pod">>) THEN [ok |-> TRUE, val |-> pod]
    ELSE LET p1 == SetDefault(pod, "spec", MapV(<<>>))
             sp == Get(p1, "spec")
         IN IF ~IsMap(sp) THEN [ok |-> FALSE, val |-> p1]
            ELSE [ok |-> TRUE,
                  val |-> SetItem(p1, "spec",
                            SetItem(sp, "topologySpreadConstraints",
                              ListV(<<Constraint(topology_key, max_skew,
                                                when_unsatisfiable)>>)))]

RECURSIVE TopoLoop(_, _, _, _, _)
TopoLoop(pods, i, topology_key, max_skew, when_unsatisfiable) ==
    IF i > Len(pods) THEN [ok |-> TRUE, val |-> pods]
    ELSE LET r == ConstrainPod(pods[i], topology_key, max_skew, when_unsatisfiable)
         IN IF ~r.ok THEN [ok |-> FALSE, val |-> pods]
            ELSE TopoLoop([pods EXCEPT ![i] = r.val], i + 1,
                          topology_key, max_skew, when_unsatisfiable)

add_topology_constraints(pods, topology_key, max_skew, when_unsatisfiable) ==
    TopoLoop(pods, 1, topology_key, max_skew, when_unsatisfiable)

\* mutant: the constraint groups by another label than the one the nodes get
TopologyKeyArg_Hostname == "kubernetes.io/hostname"
\* the topology_key argument process_directory passes
TopologyKeyArg == "topology.kubernetes.io/rack"
\* the call of line 73: add_topology_constraints(pods, topology_key=..., max_skew=...)
constrain_call(pods, max_skew) ==
    add_topology_constraints(pods, TopologyKeyArg, max_skew, WhenUnsatisfiableDefault)

\* ---------------------------------------------------- yaml.dump_all / load
\* The text of a file is a sequence of lines.  A line carries its indentation
\* depth, its key ("-" for a list item, "" for a root scalar) and either a
\* scalar or the mark of a nested block that follows one level deeper.
Sep == [ind |-> 0, key |-> "", tag |-> "---", s |-> <<>>, n |-> 0]

IsBlock(v) == v.tag \in {"map", "seq"} /\ v.kids # <<>>
LineOf(depth, k, v) ==
    [ind |-> depth, key |-> k,
     tag |-> IF v.tag = "map" /\ v.kids = <<>> THEN "{}"
             ELSE IF v.tag = "seq" /\ v.kids = <<>> THEN "[]" ELSE v.tag,
     s |-> v.s, n |-> v.n]

RECURSIVE EmitFrom(_, _, _)
\* block style, keys in insertion order (sort_keys=False)
EmitFrom(kids, i, depth) ==
    IF i > Len(kids) THEN <<>>
    ELSE LET c == kids[i][2]
         IN <<LineOf(depth, kids[i][1], c)>>
            \o (IF IsBlock(c) THEN EmitFrom(c.kids, 1, depth + 1) ELSE <<>>)
            \o EmitFrom(kids, i + 1, depth)

EmitDoc(v) == IF IsBlock(v) THEN EmitFrom(v.kids, 1, 0) ELSE <<LineOf(0, "", v)>>

RECURSIVE DumpFrom(_, _)
DumpFrom(docs, i) ==
    IF i > Len(docs) THEN <<>>
    ELSE (IF i > 1 THEN <<Sep>> ELSE <<>>) \o EmitDoc(docs[i]) \o DumpFrom(docs, i + 1)

\* mutant: each document is dumped over the previous one, the last one stays
dump_all_Last(docs) == IF docs = <<>> THEN <<>> ELSE EmitDoc(docs[Len(docs)])
\* yaml.dump_all(docs, f, sort_keys=False)
dump_all(docs) == DumpFrom(docs, 1)

ScalarOf(l) ==
    CASE l.tag = "str" -> StrV(l.s)
      [] l.tag = "int" -> IntV(l.n)
      [] l.tag = "{}"  -> MapV(<<>>)
      [] l.tag = "[]"  -> ListV(<<>>)
      [] OTHER         -> NullV

RECURSIVE FoldMap(_, _, _)
\* a mapping built key by key: a repeated key keeps its place, last value wins
FoldMap(pairs, i, d) ==
    IF i > Len(pairs) THEN d
    ELSE FoldMap(pairs, i + 1, SetItem(d, pairs[i][1], pairs[i][2]))

Collect(pairs) ==
    IF \A i \in 1..Len(pairs) : pairs[i][1] = "-"
    THEN [ok |-> TRUE, val |-> [tag |-> "seq", s |-> <<>>, n |-> 0, kids |-> pairs]]
    ELSE IF \E i \in 1..Len(pairs) : pairs[i][1] \in {"-", ""}
    THEN [ok |-> FALSE, val |-> NullV]
    ELSE [ok |-> TRUE, val |-> FoldMap(pairs, 1, MapV(<<>>))]

NoParse(ls) == [ok |-> FALSE, kids |-> <<>>, rest |-> ls]
\* an entry followed by the entries parsed after it
Cons(entry, more) ==
    IF ~more.ok THEN more
    ELSE [ok |-> TRUE, kids |-> <<entry>> \o more.kids, rest |-> more.rest]

RECURSIVE ParseKids(_, _)
\* the entry of line l, whose nested block parsed to sub
Nested(l, sub, d) ==
    IF ~sub.ok \/ sub.kids = <<>> THEN NoParse(sub.rest)
    ELSE LET col == Collect(sub.kids)
         IN IF ~col.ok \/ col.val.tag # l.tag THEN NoParse(sub.rest)
            ELSE Cons(<<l.key, col.val>>, ParseKids(sub.rest, d))

\* the entries of the block at depth d that starts at the head of ls
ParseKids(ls, d) ==
    IF ls = <<>> \/ Head(ls).ind < d THEN [ok |-> TRUE, kids |-> <<>>, rest |-> ls]
    ELSE IF Head(ls).ind > d THEN NoParse(ls)
    ELSE IF Head(ls).tag \in {"map", "seq"}
         THEN Nested(Head(ls), ParseKids(Tail(ls), d + 1), d)
         ELSE Cons(<<Head(ls).key, ScalarOf(Head(ls))>>, ParseKids(Tail(ls), d))

\* one document; no line at all is the empty document, which loads as None
ParseDoc(ls) ==
    IF ls = <<>> THEN [ok |-> TRUE, val |-> NullV]
    ELSE IF Len(ls) = 1 /\ ls[1].key = "" /\ ls[1].ind = 0
    THEN [ok |-> TRUE, val |-> ScalarOf(ls[1])]
    ELSE LET r == ParseKids(ls, 0)
         IN IF r.ok /\ r.rest = <<>> THEN Collect(r.kids)
            ELSE [ok |-> FALSE, val |-> NullV]

\* the k-th smallest element of a set of numbers
Nth(S, k) == CHOOSE i \in S : Cardinality({j \in S : j < i}) = k - 1
\* the documents of a stream: what stands between the separators
SplitDocs(ls) ==
    LET seps == {i \in 1..Len(ls) : ls[i] = Sep}
    IN [k \in 1..(Cardinality(seps) + 1) |->
          SubSeq(ls, Nth(seps \cup {0}, k) + 1, Nth(seps \cup {Len(ls) + 1}, k) - 1)]

\* list(yaml.safe_load_all(f)): ok = FALSE is the parser's exception
safe_load_all(text) ==
    IF text = <<>> THEN [ok |-> TRUE, val |-> <<>>]
    ELSE LET chunks == SplitDocs(IF Head(text) = Sep THEN Tail(text) ELSE text)
             parsed == [i \in 1..Len(chunks) |-> ParseDoc(chunks[i])]
         IN IF \A i \in 1..Len(chunks) : parsed[i].ok
            THEN [ok |-> TRUE, val |-> [i \in 1..Len(chunks) |-> parsed[i].val]]
            ELSE [ok |-> FALSE, val |-> <<>>]

\* ------------------------------------------------------------- file names
\* A file name is a sequence of tokens; the directory is a function from the
\* names present to their text.
NodePrefix == "openb_node_list_"
PodPrefix == "openb_pod_list_"
Ext == ".yaml"
None == <<>>

\* glob "<prefix>*.yaml"
Matches(dir, prefix) ==
    {f \in DOMAIN dir : Len(f) >= 2 /\ f[1] = prefix /\ f[Len(f)] = Ext}
\* next(glob(...), None): enumeration order is the file system's
FirstMatch(dir, prefix) ==
    IF Matches(dir, prefix) = {} THEN {None} ELSE Matches(dir, prefix)

\* Path.stem
Stem(f) == SubSeq(f, 1, Len(f) - 1)
\* mutant: the machine output goes to the file that was read
node_output_file_InPlace(node_file, rack_mod) == node_file
node_output_file(node_file, rack_mod) ==
    Stem(node_file) \o <<"_with_rack-quantity">> \o DecStr(rack_mod) \o <<Ext>>
pod_output_file(pod_file, max_skew) ==
    Stem(pod_file) \o <<"_with_skew-value">> \o DecStr(max_skew) \o <<Ext>>

\* open(name, "w"): creates the file or truncates it
OpenW(dir, name) ==
    [f \in DOMAIN dir \cup {name} |-> IF f = name THEN <<>> ELSE dir[f]]
\* text written through the open handle
WriteText(dir, name, text) ==
    [f \in DOMAIN dir \cup {name} |-> IF f = name THEN text ELSE dir[f]]

\* mutant: the run is given up only when both files are missing
MissingInput_Both(node_file, pod_file) == node_file = None /\ pod_file = None
\* line 47: if not node_file or not pod_file
MissingInput(node_file, pod_file) == node_file = None \/ pod_file = None

\* ------------------------------------------------------------------ state
VARIABLES
    isdir,      \* input_path.is_dir()
    files,      \* the directory: file name -> text
    pc,         \* per invocation: the statement process_directory is at
    rack_mod,   \* per invocation: argument rack_mod
    max_skew,   \* per invocation: argument max_skew
    node_file,  \* per invocation: local node_file (None before the glob)
    pod_file,   \* per invocation: local pod_file
    nodes,      \* per invocation: local nodes
    pods,       \* per invocation: local pods
    run,        \* number of the current invocation of the sequential caller
    files0,     \* history: the directory when the current invocation started
    log,        \* history: <<rack_mod, max_skew, outcome>> of earlier invocations
    fn,         \* annotator under test: "rack", "topo" or "none"
    param,      \* its rack_mod or max_skew
    orig,       \* history: the sequence as drawn
    recs,       \* the in-memory sequence the annotator is applied to
    passes      \* how often it has been applied

dirvars == <<isdir, files>>
procvars == <<pc, rack_mod, max_skew, node_file, pod_file, nodes, pods, run, files0, log>>
annotvars == <<fn, param, orig, recs, passes>>
vars == <<isdir, files, pc, rack_mod, max_skew, node_file, pod_file, nodes, pods,
          run, files0, log, fn, param, orig, recs, passes>>

Procs == {1, 2}

\* --------------------------------------------------------------- inputs
OtherLabel == <<"zone", StrV(<<"z1">>)>>
OldRack == <<RackLabelKey, StrV(<<"rack-">> \o DecStr(7))>>
Named(nm) == <<"name", StrV(<<nm>>)>>
Kind(k) == <<"kind", StrV(<<k>>)>>

\* machine records: no metadata; metadata without labels; empty labels;
\* labels with another label; labels with a prior rack label; a non-Node kind
NodeRecs ==
    { MapV(<<Kind("Node")>>),
      MapV(<<Kind("Node"), <<"metadata", MapV(<<Named("n1")>>)>> >>),
      MapV(<< <<"metadata", MapV(<<Named("n2"), <<"labels", MapV(<<>>)>> >>)>> >>),
      MapV(<<Kind("Node"), <<"metadata", MapV(<< <<"labels", MapV(<<OtherLabel>>)>> >>)>> >>),
      MapV(<<Kind("Node"),
             <<"metadata", MapV(<< <<"labels", MapV(<<OldRack, OtherLabel>>)>>,
                                   Named("n3") >>)>> >>),
      MapV(<<Kind("Pod"), <<"spec", MapV(<<>>)>> >>) }

OldConstraint(k) ==
    MapV(<< <<"maxSkew", IntV(5)>>, <<"topologyKey", StrV(<<k>>)>> >>)

\* workload-file records: Pods without spec, with a spec, with one or two prior
\* constraints; records of another kind (one of them carrying constraints); no kind
PodRecs ==
    { MapV(<<Kind("Pod")>>),
      MapV(<<Kind("Pod"), <<"spec", MapV(<< <<"containers", ListV(<<>>)>> >>)>> >>),
      MapV(<< <<"spec", MapV(<< <<"topologySpreadConstraints",
                                  ListV(<<OldConstraint("zone")>>)>>,
                                <<"containers", ListV(<<>>)>> >>)>>,
              Kind("Pod") >>),
      MapV(<<Kind("Pod"),
             <<"spec", MapV(<< <<"topologySpreadConstraints",
                                 ListV(<<OldConstraint("zone"),
                                         OldConstraint(RackLabelKey)>>)>> >>)>> >>),
      MapV(<<Kind("Service"),
             <<"spec", MapV(<< <<"topologySpreadConstraints",
                                 ListV(<<OldConstraint("zone")>>)>> >>)>> >>),
      MapV(<< <<"metadata", MapV(<<Named("x")>>)>> >>) }

SeqsUpTo(S, n) == UNION {[1..k -> S] : k \in 0..n}

\* the texts a directory may hold at the start
GoodNodes ==
    << MapV(<<Kind("Node")>>),
       MapV(<<Kind("Node"),
              <<"metadata", MapV(<< <<"labels", MapV(<<OldRack, OtherLabel>>)>>,
                                    Named("n3") >>)>> >>),
       MapV(<<Kind("Node"), <<"metadata", MapV(<<Named("n1")>>)>> >>) >>
GoodPods ==
    << MapV(<< <<"spec", MapV(<< <<"topologySpreadConstraints",
                                   ListV(<<OldConstraint("zone")>>)>>,
                                 <<"containers", ListV(<<>>)>> >>)>>,
               Kind("Pod") >>),
       MapV(<<Kind("Service"),
              <<"spec", MapV(<< <<"topologySpreadConstraints",
                                  ListV(<<OldConstraint("zone")>>)>> >>)>> >>),
       MapV(<<Kind("Pod")>>) >>
\* a line indented deeper than the block it stands in does not parse
BadText == <<[ind |-> 1, key |-> "kind", tag |-> "str", s |-> <<"Node">>, n |-> 0]>>
\* a separator with nothing after it: the last document is empty
GoodNodeText == DumpFrom(GoodNodes, 1)
GoodPodText == DumpFrom(GoodPods, 1)
NodeTexts == {GoodNodeText, EmitDoc(GoodNodes[1]) \o <<Sep>>, BadText}
PodTexts == {GoodPodText, EmitDoc(GoodPods[1]) \o <<Sep>>, BadText}

NodeIn == <<NodePrefix, "v1", Ext>>
PodIn == <<PodPrefix, "v1", Ext>>
Unrelated == <<"readme", ".md">>
NoFiles == [f \in {} |-> <<>>]
InitDirs ==
    {WriteText(NoFiles, Unrelated, <<>>)}
    \cup {WriteText(WriteText(NoFiles, Unrelated, <<>>), NodeIn, t) : t \in NodeTexts}
    \cup {WriteText(WriteText(NoFiles, Unrelated, <<>>), PodIn, t) : t \in PodTexts}
    \cup {WriteText(WriteText(WriteText(NoFiles, Unrelated, <<>>), NodeIn, t), PodIn, u) :
            t \in NodeTexts, u \in PodTexts}

Idle == [p \in Procs |-> "idle"]
NoLocals ==
    /\ node_file = [p \in Procs |-> None]
    /\ pod_file = [p \in Procs |-> None]
    /\ nodes = [p \in Procs |-> <<>>]
    /\ pods = [p \in Procs |-> <<>>]
NoAnnot == fn = "none" /\ param = 0 /\ orig = <<>> /\ recs = <<>> /\ passes = 0

\* ------------------------------------------------- process_directory steps
\* lines 38-55: the directory test, the two globs, the test for a missing file
Discover(p) ==
    /\ pc[p] = "start"
    /\ IF ~isdir
       THEN /\ pc' = [pc EXCEPT ![p] = "failed"]
            /\ UNCHANGED <<node_file, pod_file>>
       ELSE \E nf \in FirstMatch(files, NodePrefix), pf \in FirstMatch(files, PodPrefix) :
               /\ node_file' = [node_file EXCEPT ![p] = nf]
               /\ pod_file' = [pod_file EXCEPT ![p] = pf]
               /\ pc' = [pc EXCEPT ![p] = IF MissingInput(nf, pf)
                                          THEN "failed" ELSE "load_nodes"]
    /\ UNCHANGED <<isdir, files, rack_mod, max_skew, nodes, pods, run, files0, log>>
    /\ UNCHANGED annotvars

\* lines 58-59
LoadNodes(p) ==
    /\ pc[p] = "load_nodes"
    /\ LET r == safe_load_all(files[node_file[p]])
       IN IF r.ok
          THEN nodes' = [nodes EXCEPT ![p] = r.val] /\ pc' = [pc EXCEPT ![p] = "load_pods"]
          ELSE nodes' = nodes /\ pc' = [pc EXCEPT ![p] = "parse_error"]
    /\ UNCHANGED <<isdir, files, rack_mod, max_skew, node_file, pod_file, pods,
                   run, files0, log>>
    /\ UNCHANGED annotvars

\* mutant: the machine output is opened before the workload file is loaded
LoadPods_AfterOpen(p) ==
    /\ pc[p] = "load_pods"
    /\ files' = OpenW(files, node_output_file(node_file[p], rack_mod[p]))
    /\ LET r == safe_load_all(files[pod_file[p]])
       IN IF r.ok
          THEN pods' = [pods EXCEPT ![p] = r.val]
               /\ pc' = [pc EXCEPT ![p] = "annotate_nodes"]
          ELSE pods' = pods /\ pc' = [pc EXCEPT ![p] = "parse_error"]
    /\ UNCHANGED <<isdir, rack_mod, max_skew, node_file, pod_file, nodes,
                   run, files0, log>>
    /\ UNCHANGED annotvars

\* lines 62-63
LoadPods(p) ==
    /\ pc[p] = "load_pods"
    /\ LET r == safe_load_all(files[pod_file[p]])
       IN IF r.ok
          THEN pods' = [pods EXCEPT ![p] = r.val]
               /\ pc' = [pc EXCEPT ![p] = "annotate_nodes"]
          ELSE pods' = pods /\ pc' = [pc EXCEPT ![p] = "parse_error"]
    /\ UNCHANGED <<isdir, files, rack_mod, max_skew, node_file, pod_file, nodes,
                   run, files0, log>>
    /\ UNCHANGED annotvars

\* line 66
AnnotateNodes(p) ==
    /\ pc[p] = "annotate_nodes"
    /\ LET r == add_rack_labels(nodes[p], rack_mod[p])
       IN /\ nodes' = [nodes EXCEPT ![p] = r.val]
          /\ pc' = [pc EXCEPT ![p] = IF r.ok THEN "write_nodes" ELSE "attr_error"]
    /\ UNCHANGED <<isdir, files, rack_mod, max_skew, node_file, pod_file, pods,
                   run, files0, log>>
    /\ UNCHANGED annotvars

\* mutant: after the machine output the workloads are written as loaded
WriteNodes_SkipAnnot(p) ==
    /\ pc[p] = "write_nodes"
    /\ LET out == node_output_file(node_file[p], rack_mod[p])
       IN files' = WriteText(OpenW(files, out), out, dump_all(nodes[p]))
    /\ pc' = [pc EXCEPT ![p] = "write_pods"]
    /\ UNCHANGED <<isdir, rack_mod, max_skew, node_file, pod_file, nodes, pods,
                   run, files0, log>>
    /\ UNCHANGED annotvars

\* lines 67-70: the output is opened and the documents are dumped into it
WriteNodes(p) ==
    /\ pc[p] = "write_nodes"
    /\ LET out == node_output_file(node_file[p], rack_mod[p])
       IN files' = WriteText(OpenW(files, out), out, dump_all(nodes[p]))
    /\ pc' = [pc EXCEPT ![p] = "annotate_pods"]
    /\ UNCHANGED <<isdir, rack_mod, max_skew, node_file, pod_file, nodes, pods,
                   run, files0, log>>
    /\ UNCHANGED annotvars

\* line 73
AnnotatePods(p) ==
    /\ pc[p] = "annotate_pods"
    /\ LET r == constrain_call(pods[p], max_skew[p])
       IN /\ pods' = [pods EXCEPT ![p] = r.val]
          /\ pc' = [pc EXCEPT ![p] = IF r.ok THEN "write_pods" ELSE "attr_error"]
    /\ UNCHANGED <<isdir, files, rack_mod, max_skew, node_file, pod_file, nodes,
                   run, files0, log>>
    /\ UNCHANGED annotvars

\* lines 74-77
WritePods(p) ==
    /\ pc[p] = "write_pods"
    /\ LET out == pod_output_file(pod_file[p], max_skew[p])
       IN files' = WriteText(OpenW(files, out), out, dump_all(pods[p]))
    /\ pc' = [pc EXCEPT ![p] = "done"]
    /\ UNCHANGED <<isdir, rack_mod, max_skew, node_file, pod_file, nodes, pods,
                   run, files0, log>>
    /\ UNCHANGED annotvars

Ended(p) == pc[p] \in {"done", "failed", "parse_error", "attr_error"}

\* lines 82-89: the command line is run again on the same directory
Invoke(p) ==
    /\ Ended(p)
    /\ run < MaxRuns
    /\ run' = run + 1
    /\ \E r \in 1..MaxRack, s \in 1..MaxSkew :
          /\ rack_mod' = [rack_mod EXCEPT ![p] = r]
          /\ max_skew' = [max_skew EXCEPT ![p] = s]
    /\ log' = Append(log, <<rack_mod[p], max_skew[p], pc[p]>>)
    /\ files0' = files
    /\ pc' = [pc EXCEPT ![p] = "start"]
    /\ node_file' = [node_file EXCEPT ![p] = None]
    /\ pod_file' = [pod_file EXCEPT ![p] = None]
    /\ nodes' = [nodes EXCEPT ![p] = <<>>]
    /\ pods' = [pods EXCEPT ![p] = <<>>]
    /\ UNCHANGED <<isdir, files>>
    /\ UNCHANGED annotvars

\* one caller, invoking process_directory again and again
Init ==
    /\ isdir \in BOOLEAN
    /\ files \in (IF isdir THEN InitDirs ELSE {NoFiles})
    /\ pc = [Idle EXCEPT ![1] = "start"]
    /\ \E r \in 1..MaxRack, s \in 1..MaxSkew :
          /\ rack_mod = [p \in Procs |-> r]
          /\ max_skew = [p \in Procs |-> s]
    /\ NoLocals
    /\ run = 1
    /\ files0 = files
    /\ log = <<>>
    /\ NoAnnot

Next ==
    \/ Discover(1)
    \/ LoadNodes(1) \/ LoadPods(1)
    \/ AnnotateNodes(1) \/ WriteNodes(1)
    \/ AnnotatePods(1) \/ WritePods(1)
    \/ Invoke(1)

Spec == Init /\ [][Next]_vars

\* ------------------------------------ the annotators on in-memory sequences
InitAnnot ==
    /\ isdir = FALSE /\ files = NoFiles
    /\ pc = Idle
    /\ rack_mod = [p \in Procs |-> 1] /\ max_skew = [p \in Procs |-> 1]
    /\ NoLocals
    /\ run = 1 /\ files0 = NoFiles /\ log = <<>>
    /\ fn \in {"rack", "topo"}
    /\ param \in (IF fn = "rack" THEN 1..MaxRack ELSE 1..MaxSkew)
    /\ orig \in (IF fn = "rack" THEN SeqsUpTo(NodeRecs, MaxLen)
                               ELSE SeqsUpTo(PodRecs, MaxLen))
    /\ recs = orig
    /\ passes = 0

\* nodes = add_rack_labels(nodes, rack_mod=R)
ApplyRack ==
    /\ fn = "rack" /\ passes < MaxPasses
    /\ LET r == add_rack_labels(recs, param) IN r.ok /\ recs' = r.val
    /\ passes' = passes + 1
    /\ UNCHANGED <<fn, param, orig>>
    /\ UNCHANGED dirvars /\ UNCHANGED procvars

\* pods = add_topology_constraints(pods, topology_key=..., max_skew=S)
ApplyTopo ==
    /\ fn = "topo" /\ passes < MaxPasses
    /\ LET r == constrain_call(recs, param) IN r.ok /\ recs' = r.val
    /\ passes' = passes + 1
    /\ UNCHANGED <<fn, param, orig>>
    /\ UNCHANGED dirvars /\ UNCHANGED procvars

NextAnnot == ApplyRack \/ ApplyTopo

SpecAnnot == InitAnnot /\ [][NextAnnot]_vars

\* ------------------------------------------------------------ properties
RECURSIVE At(_, _)
\* the value at a key path, NullV where the path leaves the mappings
At(v, path) ==
    IF path = <<>> THEN v
    ELSE IF IsMap(v) /\ Has(v, Head(path)) THEN At(Get(v, Head(path)), Tail(path))
    ELSE NullV

RackPath == <<"metadata", "labels", "topology.kubernetes.io/rack">>
ConstraintsPath == <<"spec", "topologySpreadConstraints">>
Min(a, b) == IF a < b THEN a ELSE b
IsPod(rec) == At(rec, <<"kind">>) = StrV(<<"Pod">>)

\* C1: after add_rack_labels with modulus R the record at zero-based index i
\* carries the rack label "rack-<i mod R>", whatever it carried before, and the
\* sequence shows min(N, R) distinct rack values.
Thm_C1 ==
    (fn = "rack" /\ passes >= 1) =>
        /\ Len(recs) = Len(orig)
        /\ \A i \in 1..Len(recs) :
              At(recs[i], RackPath) = StrV(<<"rack-", Digit[((i - 1) % param) + 1]>>)
        /\ Cardinality({At(recs[i], RackPath) : i \in 1..Len(recs)})
              = Min(Len(recs), param)

\* three records, two racks; the first record had no metadata, the second a
\* prior rack label
Wit_C1 ==
    /\ fn = "rack" /\ passes = 1 /\ param = 2 /\ Len(recs) = 3
    /\ ~Has(orig[1], "metadata")
    /\ At(orig[2], RackPath) = StrV(<<"rack-", "7">>)
    /\ At(recs[3], RackPath) = StrV(<<"rack-", "0">>)

\* C2: after add_topology_constraints every Pod record holds exactly one
\* constraint (maxSkew S, the rack-label key of add_rack_labels, ScheduleAnyway,
\* empty selector) in place of what it held, and every other record is as it was.
Thm_C2 ==
    (fn = "topo" /\ passes >= 1) =>
        /\ Len(recs) = Len(orig)
        /\ \A i \in 1..Len(recs) :
              IF IsPod(orig[i])
              THEN At(recs[i], ConstraintsPath) =
                     ListV(<< MapV(<< <<"maxSkew", IntV(param)>>,
                                      <<"topologyKey", StrV(<<RackLabelKey>>)>>,
                                      <<"whenUnsatisfiable", StrV(<<"ScheduleAnyway">>)>>,
                                      <<"labelSelector", MapV(<<>>)>> >>) >>)
              ELSE recs[i] = orig[i]

\* a Pod that held two constraints, a Pod without spec and a Service
Wit_C2 ==
    /\ fn = "topo" /\ passes = 1 /\ param = 2 /\ Len(recs) = 3
    /\ IsPod(orig[1]) /\ Len(At(orig[1], ConstraintsPath).kids) = 2
    /\ IsPod(orig[2]) /\ ~Has(orig[2], "spec")
    /\ ~IsPod(orig[3]) /\ Len(At(orig[3], ConstraintsPath).kids) = 1
    /\ Len(At(recs[1], ConstraintsPath).kids) = 1

\* C7: a second application of add_rack_labels (same R) or of
\* add_topology_constraints (same S) to the same sequence changes nothing.
Thm_C7 == [][passes >= 1 => recs' = recs]_vars

\* second pass done over a sequence the first pass did change
Wit_C7 ==
    /\ passes = 2 /\ recs # orig /\ Len(recs) = 3
    /\ \/ fn = "rack"
       \/ fn = "topo" /\ \E i \in 1..3 : Len(At(recs[i], ConstraintsPath).kids) = 1

\* --------------------------------------------- two invocations side by side
InitConc ==
    /\ isdir = TRUE
    /\ files = WriteText(WriteText(WriteText(NoFiles, Unrelated, <<>>),
                                   NodeIn, GoodNodeText),
                         PodIn, GoodPodText)
    /\ pc = [p \in Procs |-> "start"]
    /\ rack_mod \in [Procs -> 1..MaxRack]
    /\ max_skew \in [Procs -> 1..MaxSkew]
    /\ rack_mod[1] # rack_mod[2]
    /\ max_skew[1] # max_skew[2]
    /\ NoLocals
    /\ run = 1
    /\ files0 = files
    /\ log = <<>>
    /\ NoAnnot

NextConc ==
    \E p \in Procs :
        \/ Discover(p)
        \/ LoadNodes(p) \/ LoadPods(p)
        \/ AnnotateNodes(p) \/ WriteNodes(p)
        \/ AnnotatePods(p) \/ WritePods(p)

SpecConc == InitConc /\ [][NextConc]_vars

\* ------------------------------------------- properties of process_directory
Scanning == {"start"}
Raised == {"parse_error", "attr_error"}
NoMatch(dir, prefix) == \A f \in DOMAIN dir : ~(f[1] = prefix /\ f[Len(f)] = ".yaml")

\* C3: called on something that is not a directory, or on a directory without a
\* machine-list match or without a workload-list match, process_directory
\* returns (it raises nothing) and leaves every file as it was.
Thm_C3 ==
    (/\ pc[1] \notin Scanning
     /\ ~isdir \/ NoMatch(files0, "openb_node_list_") \/ NoMatch(files0, "openb_pod_list_"))
    => (pc[1] = "failed" /\ files = files0)

\* the machine list is there, the workload list is not
Wit_C3 ==
    /\ pc[1] = "failed" /\ isdir
    /\ NodeIn \in DOMAIN files0 /\ node_file[1] = NodeIn
    /\ NoMatch(files0, "openb_pod_list_")
    /\ files = files0

\* the five phases of the orchestrator, ended runs last
Phase(at) ==
    CASE at \in Scanning -> 1
      [] at \in {"load_nodes", "load_pods"} -> 2
      [] at \in {"annotate_nodes", "annotate_pods"} -> 3
      [] at \in {"write_nodes", "write_pods"} -> 4
      [] at = "done" -> 5
      [] OTHER -> 6

\* C4 as stated: a run passes through Scanning, Loading, Annotating, Writing,
\* Done in that order and never returns to an earlier phase, so that every
\* annotation is finished before any output file is written.
Orig_C4 == [][pc'[1] # "start" => Phase(pc'[1]) >= Phase(pc[1])]_vars

\* the statements of a run in the order of the source
StepOf(at) ==
    CASE at = "start" -> 1
      [] at = "load_nodes" -> 2
      [] at = "load_pods" -> 3
      [] at = "annotate_nodes" -> 4
      [] at = "write_nodes" -> 5
      [] at = "annotate_pods" -> 6
      [] at = "write_pods" -> 7
      [] at = "done" -> 8
      [] OTHER -> 9

NodeOutName(f, r) == SubSeq(f, 1, Len(f) - 1) \o <<"_with_rack-quantity", Digit[r + 1], ".yaml">>
PodOutName(f, s) == SubSeq(f, 1, Len(f) - 1) \o <<"_with_skew-value", Digit[s + 1], ".yaml">>
Loaded(f) == safe_load_all(files[f]).val

\* what a run that found both files holds when it takes each statement
Labelled(ns) == \A i \in 1..Len(ns) : At(ns[i], RackPath).tag = "str"
Constrained(ps) ==
    \A i \in 1..Len(ps) :
        IsPod(ps[i]) => /\ Len(At(ps[i], ConstraintsPath).kids) = 1
                        /\ At(ps[i], ConstraintsPath).kids[1][2].kids[1]
                             = <<"maxSkew", IntV(max_skew[1])>>
PositionHolds ==
    LET at == pc[1]
        nodeOut == NodeOutName(node_file[1], rack_mod[1])
    IN /\ at = "annotate_nodes" =>
             /\ nodes[1] = Loaded(node_file[1])
             /\ pods[1] = Loaded(pod_file[1])
       /\ at \in {"annotate_nodes", "write_nodes"} => files = files0
       /\ at = "write_nodes" => Labelled(nodes[1])
       /\ at \in {"write_nodes", "annotate_pods"} => pods[1] = Loaded(pod_file[1])
       /\ at \in {"annotate_pods", "write_pods"} =>
             /\ Labelled(nodes[1])
             /\ files[nodeOut] = dump_all(nodes[1])
       /\ at = "write_pods" => Constrained(pods[1])

\* C4 (amended): a run that found both files goes through its statements in
\* the order scan, load machines, load workloads, annotate machines, write
\* machines, annotate workloads, write workloads, done, and never back: both
\* loads are finished before any annotation, each sequence is annotated before
\* its own file is written, and the machine file is written before the
\* workloads are annotated.
Thm_C4 ==
    [][/\ PositionHolds
       /\ (pc'[1] # pc[1] /\ pc'[1] # "start")
             => StepOf(pc'[1]) = StepOf(pc[1]) + 1 \/ pc'[1] \in Raised \cup {"failed"}]_vars

\* the machine file is written, with its racks, and the workloads are not yet
\* annotated
Wit_C4 ==
    /\ pc[1] = "annotate_pods" /\ node_file[1] = NodeIn /\ pod_file[1] = PodIn
    /\ files[NodeOutName(NodeIn, rack_mod[1])] # <<>>
    /\ Len(pods[1]) = 3 /\ IsPod(pods[1][3]) /\ ~Has(pods[1][3], "spec")

\* C5 as stated: a second call with the same directory, R and S leaves the
\* directory with the files and the contents the first call left.
Orig_C5 ==
    (run = 2 /\ pc[1] = "done" /\ log[1] = <<rack_mod[1], max_skew[1], "done">>)
    => files = files0

\* C8: what process_directory wrote reloads to sequences as long as, and in
\* the order of, the ones it loaded; a machine record differs from its source
\* only under metadata.labels[rack], a Pod only under
\* spec.topologySpreadConstraints, and any other workload record not at all.
Others(d, k) == SelectSeq(d.kids, LAMBDA kv : kv[1] # k)

RECURSIVE AgreeExcept(_, _, _)
AgreeExcept(a, b, path) ==
    IF path = <<>> THEN TRUE
    ELSE /\ IsMap(a) /\ IsMap(b)
         /\ Others(a, Head(path)) = Others(b, Head(path))
         /\ Has(b, Head(path))
         /\ AgreeExcept(IF Has(a, Head(path)) THEN Get(a, Head(path)) ELSE MapV(<<>>),
                        Get(b, Head(path)), Tail(path))

Thm_C8 ==
    pc[1] = "done" =>
        LET outN == safe_load_all(files[NodeOutName(node_file[1], rack_mod[1])])
            outP == safe_load_all(files[PodOutName(pod_file[1], max_skew[1])])
            inN == Loaded(node_file[1])
            inP == Loaded(pod_file[1])
        IN /\ outN.ok /\ outP.ok
           /\ Len(outN.val) = Len(inN) /\ Len(outP.val) = Len(inP)
           /\ \A i \in 1..Len(inN) : AgreeExcept(inN[i], outN.val[i], RackPath)
           /\ \A i \in 1..Len(inP) :
                 IF IsPod(inP[i]) THEN AgreeExcept(inP[i], outP.val[i], ConstraintsPath)
                 ELSE outP.val[i] = inP[i]

\* three machines and three workload records went through; the second machine
\* lost its old rack and kept its other label
Wit_C8 ==
    /\ pc[1] = "done" /\ node_file[1] = NodeIn /\ pod_file[1] = PodIn
    /\ rack_mod[1] = 2
    /\ LET outN == Loaded(NodeOutName(NodeIn, 2))
       IN /\ Len(outN) = 3
          /\ At(outN[2], RackPath) = StrV(<<"rack-", "1">>)
          /\ At(outN[2], <<"metadata", "labels", "zone">>) = StrV(<<"z1">>)
          /\ At(Loaded(NodeIn)[2], RackPath) = StrV(<<"rack-", "7">>)
    /\ Len(Loaded(PodOutName(PodIn, max_skew[1]))) = 3

\* C9: no step of a run writes a file the run read; the files it writes are
\* <stem>_with_rack-quantity<R>.yaml and <stem>_with_skew-value<S>.yaml, names
\* that differ for different R (different S); a run ends with its input files
\* as they were.
WrittenBy(step_files, new_files) ==
    {f \in DOMAIN new_files : f \notin DOMAIN step_files \/ new_files[f] # step_files[f]}

Thm_C9 ==
    [][/\ DOMAIN files \subseteq DOMAIN files'
       /\ \A f \in WrittenBy(files, files') :
             /\ f # node_file[1] /\ f # pod_file[1]
             /\ f \in {NodeOutName(node_file[1], rack_mod[1]),
                       PodOutName(pod_file[1], max_skew[1])}
       /\ \A r1, r2 \in 1..MaxRack :
             (node_file'[1] # None /\ r1 # r2)
                => node_output_file(node_file'[1], r1) # node_output_file(node_file'[1], r2)
       /\ \A s1, s2 \in 1..MaxSkew :
             (pod_file'[1] # None /\ s1 # s2)
                => pod_output_file(pod_file'[1], s1) # pod_output_file(pod_file'[1], s2)
       /\ pc'[1] = "done" => /\ files'[node_file'[1]] = files0'[node_file'[1]]
                             /\ files'[pod_file'[1]] = files0'[pod_file'[1]]]_vars

\* a second run on the same pair with another R and another S: four outputs
\* side by side, the inputs as they were
Wit_C9 ==
    /\ run = 2 /\ pc[1] = "done" /\ node_file[1] = NodeIn /\ pod_file[1] = PodIn
    /\ log[1][3] = "done" /\ log[1][1] # rack_mod[1] /\ log[1][2] # max_skew[1]
    /\ {NodeOutName(NodeIn, log[1][1]), NodeOutName(NodeIn, rack_mod[1]),
        PodOutName(PodIn, log[1][2]), PodOutName(PodIn, max_skew[1])} \subseteq DOMAIN files
    /\ Cardinality(DOMAIN files) = 7
    /\ files[NodeIn] = GoodNodeText /\ files[PodIn] = GoodPodText

\* C10: a run that fails parsing the machine list or the workload list ends
\* with no file created or changed.
Thm_C10 == pc[1] = "parse_error" => files = files0

\* the machine list was loaded, the workload list does not parse
Wit_C10 ==
    /\ pc[1] = "parse_error" /\ node_file[1] = NodeIn /\ pod_file[1] = PodIn
    /\ Len(nodes[1]) = 3 /\ files[PodIn] = BadText
    /\ files = files0

\* C6 as stated: two runs with different R and different S, interleaved, read
\* only the original pair, and end with the four outputs each would have
\* written alone and nothing else.
Alone(p) ==
    [node |-> dump_all(add_rack_labels(safe_load_all(files0[NodeIn]).val, rack_mod[p]).val),
     pod |-> dump_all(constrain_call(safe_load_all(files0[PodIn]).val, max_skew[p]).val)]

Orig_C6 ==
    /\ \A p \in Procs : node_file[p] \in {None, NodeIn} /\ pod_file[p] \in {None, PodIn}
    /\ (\A p \in Procs : pc[p] = "done") =>
          /\ DOMAIN files = DOMAIN files0
                \cup {NodeOutName(NodeIn, rack_mod[p]) : p \in Procs}
                \cup {PodOutName(PodIn, max_skew[p]) : p \in Procs}
          /\ \A f \in DOMAIN files0 : files[f] = files0[f]
          /\ \A p \in Procs :
                /\ files[NodeOutName(NodeIn, rack_mod[p])] = Alone(p).node
                /\ files[PodOutName(PodIn, max_skew[p])] = Alone(p).pod

====
